---- MODULE Spec2Model ----
(***************************************************************************)
(* Model of the LRUCache class of src/LLD/practice.ts (lines 57-83).       *)
(*                                                                         *)
(* The cache is a JavaScript Map, which iterates in insertion order.  It   *)
(* is modelled as a sequence of entries [key, value], first inserted       *)
(* first.  Map.set of a key that is present keeps its position, Map.set of *)
(* an absent key appends, Map.delete removes the entry and closes the gap. *)
(*                                                                         *)
(* Model of TicTacToeGame of src/unnamed/part_000 (lines 33-268): the      *)
(* grid, the index of the current player and the status, with makeMove.    *)
(*                                                                         *)
(* Model of SnakeGame of src/unnamed/part_000 (lines 300-569): the body of *)
(* the snake, its direction, the food and the status, with moveSnake.      *)
(* Math.random in FoodGenerator.generate is a choice among the cells.      *)
(*                                                                         *)
(* Model of ParkingLot of src/unnamed/part_001 (lines 26-264): the vehicle *)
(* parked in every spot of the driver's two floors and the tickets issued, *)
(* with parkVehicle and unparkVehicle, and with parkVehicle and           *)
(* removeVehicle of a ParkingSpot.  The random ticketId plays no part.     *)
(*                                                                         *)
(* The cache design of spec.md sections 3 and 4 (Index + Recency Ledger,   *)
(* a doubly linked sequence addressed by handles) is modelled beside the   *)
(* Map, to compare the two call by call.                                   *)
(***************************************************************************)
EXTENDS Integers, Sequences, FiniteSets

\* ---- bounds of the model ------------------------------------------------
MaxKey == 3
MaxVal == 0
MaxCap == 2

\* ---- values of the program ----------------------------------------------
\* `return -1` of get on an absent key
MISS == -1
\* the value of keys().next().value on an empty Map; no key of Keys
Undefined == 0

Keys == 1..MaxKey
\* the values put is called with; MISS is an ordinary number and put takes it
Vals == MISS..MaxVal
\* the capacities the constructor is called with: it takes any number
Caps == -1..MaxCap

VARIABLES
    instance,   \* TRUE once `new LRUCache(capacity)` has run
    capacity,   \* this.capacity
    cache,      \* this.cache, the Map in insertion order
    last,       \* history: the call that ran last, its arguments and result
    prev,       \* history: this.cache before that call
    lastPut,    \* history: key -> the value of the most recent put of it
    watched,    \* history: live keys whose most recent touch is a get hit
    pend,       \* history: key -> keys live at that get, untouched since
    touch,      \* history: the keys ever touched, least recent touch first
    \* TicTacToeGame
    game,       \* TRUE once `new TicTacToeGame(players, board, strategy)` ran
    size,       \* Board.size
    grid,       \* Board.grid: row -> column -> symbol
    currentPlayerIndex,
    status,     \* TicTacToeGame.status
    move,       \* history: the makeMove call that ran last and how it ended
    before,     \* history: grid, status and current player before that call
    placed,     \* history: the symbols of the successful moves, in order
    \* SnakeGame
    snakeGame,  \* TRUE once `new SnakeGame(board, snake)` has run
    body,       \* Snake.body, head first
    direction,  \* Snake.direction
    food,       \* SnakeGame.food.position
    snakeStatus,\* SnakeGame.status
    step,       \* history: the moveSnake call that ran last and how it ended
    bodyBefore, \* history: Snake.body before that call
    foodBefore, \* history: the food before that call
    \* ParkingLot
    parked,     \* floor -> spot -> ParkingSpot.parkedVehicle
    tickets,    \* the Tickets returned by parkVehicle so far
    lotCall,    \* history: the ParkingLot call that ran last and how it ended
    parkedBefore, \* history: parked before that call
    \* the Index + Recency Ledger design run beside the Map
    index,      \* Index: key -> handle, NoHandle when absent
    ledger,     \* Recency Ledger: head, tail, next, prev, entry per handle
    refRet      \* the result of the design's last get

cacheVars ==
    <<instance, capacity, cache, last, prev, lastPut, watched, pend, touch>>

gameVars ==
    <<game, size, grid, currentPlayerIndex, status, move, before, placed>>

snakeVars ==
    <<snakeGame, body, direction, food, snakeStatus, step, bodyBefore,
      foodBefore>>

lotVars == <<parked, tickets, lotCall, parkedBefore>>

refVars == <<index, ledger, refRet>>

vars == <<cacheVars, gameVars, snakeVars, lotVars, refVars>>

\* what a step of one program leaves alone
exceptCache == <<gameVars, snakeVars, lotVars, refVars>>
exceptGame == <<cacheVars, snakeVars, lotVars, refVars>>
exceptSnake == <<cacheVars, gameVars, lotVars, refVars>>
exceptLot == <<cacheVars, gameVars, snakeVars, refVars>>
exceptCacheAndRef == <<gameVars, snakeVars, lotVars>>

\* ---- the Map ------------------------------------------------------------
KeysOf(m) == {m[i].key : i \in 1..Len(m)}

\* Map.prototype.has
Has(m, key) == \E i \in 1..Len(m) : m[i].key = key

\* the position of a present key
IndexOf(m, key) == CHOOSE i \in 1..Len(m) : m[i].key = key

\* Map.prototype.get of a present key
MapGet(m, key) == m[IndexOf(m, key)].value

\* Map.prototype.delete: no effect when the key is absent
MapDelete(m, key) ==
    IF Has(m, key)
    THEN LET i == IndexOf(m, key)
         IN SubSeq(m, 1, i - 1) \o SubSeq(m, i + 1, Len(m))
    ELSE m

\* Map.prototype.set: in place when the key is present, else at the end
MapSet(m, key, value) ==
    IF Has(m, key)
    THEN [m EXCEPT ![IndexOf(m, key)].value = value]
    ELSE Append(m, [key |-> key, value |-> value])

\* this.cache.keys().next().value
FirstKey(m) == IF Len(m) = 0 THEN Undefined ELSE m[1].key

\* ---- the methods as functions of the Map --------------------------------
\* get without the delete + set: the key keeps its position
GetCacheNoPromote(m, key) == m

\* get without the has guard: set runs on a miss too
GetCacheAlwaysSet(m, key) ==
    MapSet(MapDelete(m, key), key, IF Has(m, key) THEN MapGet(m, key) ELSE MISS)

\* get without the final set: the deleted key is not put back
GetCacheDropsKey(m, key) == MapDelete(m, key)

\* get that re-inserts the key at the front of the order
GetCachePromoteFront(m, key) ==
    IF ~Has(m, key) THEN m
    ELSE <<[key |-> key, value |-> MapGet(m, key)]>> \o MapDelete(m, key)

\* get whose set passes no value: the entry is stored as undefined
GetCacheSetNoValue(m, key) ==
    IF ~Has(m, key) THEN m
    ELSE MapSet(MapDelete(m, key), key, Undefined)

\* get: the Map after the call
GetCache(m, key) ==
    IF ~Has(m, key) THEN m
    ELSE LET value == MapGet(m, key)
         IN MapSet(MapDelete(m, key), key, value)

\* get: the returned value
GetResult(m, key) == IF ~Has(m, key) THEN MISS ELSE MapGet(m, key)

\* put with `size > capacity` in place of `size === capacity`
PutEvictLate(m, cap, key) ==
    IF Has(m, key) THEN MapDelete(m, key)
    ELSE IF Len(m) > cap THEN MapDelete(m, FirstKey(m))
    ELSE m

\* put with the size test before the has test
PutEvictSizeFirst(m, cap, key) ==
    IF Len(m) = cap THEN MapDelete(m, FirstKey(m))
    ELSE IF Has(m, key) THEN MapDelete(m, key)
    ELSE m

\* put without the delete of a present key: set then updates in place
PutEvictInPlace(m, cap, key) ==
    IF Has(m, key) THEN m
    ELSE IF Len(m) = cap THEN MapDelete(m, FirstKey(m))
    ELSE m

\* put that evicts the key at the end of the Map, the newest one
PutEvictNewest(m, cap, key) ==
    IF Has(m, key) THEN MapDelete(m, key)
    ELSE IF Len(m) = cap
         THEN MapDelete(m, IF Len(m) = 0 THEN Undefined ELSE m[Len(m)].key)
    ELSE m

\* put: the Map after the if / else if, before the final set
PutEvict(m, cap, key) ==
    IF Has(m, key) THEN MapDelete(m, key)
    ELSE IF Len(m) = cap THEN MapDelete(m, FirstKey(m))
    ELSE m

\* put that re-inserts the old value of a present key
PutCacheKeepOld(m, cap, key, value) ==
    MapSet(PutEvict(m, cap, key), key,
           IF Has(m, key) THEN MapGet(m, key) ELSE value)

\* put: the Map after the call
PutCache(m, cap, key, value) == MapSet(PutEvict(m, cap, key), key, value)

\* ---- history ------------------------------------------------------------
NoVal == MISS - 1
NoCall == [op |-> "none", key |-> Undefined, value |-> NoVal, ret |-> NoVal]

\* the keys a call removed from the cache
Evicted == KeysOf(prev) \ KeysOf(cache)

\* pend after a call that touched `key` and turned the Map from m to n
PendAfter(m, n, key, hit) ==
    [k \in Keys |->
        IF k \notin KeysOf(n) THEN {}
        ELSE IF k = key
             THEN (IF hit THEN KeysOf(m) \ {key} ELSE {})
             ELSE (pend[k] \ {key}) \cap KeysOf(n)]

\* touch after a successful get or put of `key`
TouchAfter(key) == Append(SelectSeq(touch, LAMBDA x : x # key), key)

\* ---- the methods ------------------------------------------------------
\* constructor(capacity)
constructor(cap) ==
    /\ ~instance
    /\ instance' = TRUE
    /\ capacity' = cap
    /\ cache' = <<>>

\* get that throws on an absent key
getThrowsOnMiss(key) ==
    /\ instance
    /\ Has(cache, key)
    /\ cache' = GetCache(cache, key)
    /\ UNCHANGED <<instance, capacity>>

\* get(key)
get(key) ==
    /\ instance
    /\ cache' = GetCache(cache, key)
    /\ UNCHANGED <<instance, capacity>>

\* put(key, value)
put(key, value) ==
    /\ instance
    /\ cache' = PutCache(cache, capacity, key, value)
    /\ UNCHANGED <<instance, capacity>>

InitCache ==
    /\ instance = FALSE
    /\ capacity = 0
    /\ cache = <<>>
    /\ last = NoCall
    /\ prev = <<>>
    /\ lastPut = [k \in Keys |-> NoVal]
    /\ touch = <<>>
    /\ watched = {}
    /\ pend = [k \in Keys |-> {}]

\* ---- TicTacToeGame ----------------------------------------------------
\* enum GameSymbol
X == "X"
O == "O"
EMPTY == "_"

\* enum GameStatus
IN_PROGRESS == "IN_PROGRESS"
WON == "WON"
DRAW == "DRAW"

\* the default of Board's size parameter, and the size of the driver's board
DefaultSize == 3
\* the board sizes games are made with
Sizes == 1..DefaultSize
\* the row and column arguments of makeMove, some of them off every board
Coords == -1..DefaultSize

\* the players of the driver: Alice plays X, Bob plays O
players == <<X, O>>

\* the Error messages of makeMove
GameEnded == "Game has already ended"
InvalidMove == "Invalid move"
Moved == "moved"

\* Board.constructor: a size x size grid of EMPTY
NewGrid(n) == [r \in 0..n - 1 |-> [c \in 0..n - 1 |-> EMPTY]]

\* Board.isValidMove
isValidMove(g, n, row, col) ==
    /\ row >= 0
    /\ row < n
    /\ col >= 0
    /\ col < n
    /\ g[row][col] = EMPTY

\* Board.placeGameSymbol: the grid after the call
placeGameSymbol(g, n, row, col, symbol) ==
    IF ~isValidMove(g, n, row, col) THEN g
    ELSE [g EXCEPT ![row][col] = symbol]

\* Board.isFull
isFull(g) ==
    \A r \in DOMAIN g : \A c \in DOMAIN g[r] : g[r][c] # EMPTY

\* checkWinner that looks at rows and columns only
checkWinnerNoDiagonals(g, symbol) ==
    LET n == Cardinality(DOMAIN g)
    IN \/ \E i \in 0..n - 1 : \A c \in DOMAIN g[i] : g[i][c] = symbol
       \/ \E j \in 0..n - 1 : \A i \in 0..n - 1 : g[i][j] = symbol

\* StandardWinningStrategy.checkWinner; grid.length is the size
checkWinner(g, symbol) ==
    LET n == Cardinality(DOMAIN g)
    IN \/ \E i \in 0..n - 1 : \A c \in DOMAIN g[i] : g[i][c] = symbol
       \/ \E j \in 0..n - 1 : \A i \in 0..n - 1 : g[i][j] = symbol
       \/ \A i \in 0..n - 1 : g[i][i] = symbol
       \/ \A i \in 0..n - 1 : g[i][n - i - 1] = symbol

\* what makeMove leaves behind and how it ends
Outcome(g, st, idx, res) ==
    [grid |-> g, status |-> st, index |-> idx, result |-> res]

\* makeMove without the check of the status
MakeMoveNoEndCheck(g, n, st, idx, row, col) ==
    LET symbol == players[idx + 1]
        g2 == placeGameSymbol(g, n, row, col, symbol)
    IN IF ~isValidMove(g, n, row, col) THEN Outcome(g, st, idx, InvalidMove)
       ELSE IF checkWinner(g2, symbol) THEN Outcome(g2, WON, idx, Moved)
       ELSE IF isFull(g2) THEN Outcome(g2, DRAW, idx, Moved)
       ELSE Outcome(g2, st, (idx + 1) % Len(players), Moved)

\* makeMove that switches the turn before it places the symbol
MakeMoveSwitchesFirst(g, n, st, idx, row, col) ==
    LET next == (idx + 1) % Len(players)
        symbol == players[idx + 1]
        g2 == placeGameSymbol(g, n, row, col, symbol)
    IN IF st # IN_PROGRESS THEN Outcome(g, st, idx, GameEnded)
       ELSE IF ~isValidMove(g, n, row, col)
            THEN Outcome(g, st, next, InvalidMove)
       ELSE IF checkWinner(g2, symbol) THEN Outcome(g2, WON, next, Moved)
       ELSE IF isFull(g2) THEN Outcome(g2, DRAW, next, Moved)
       ELSE Outcome(g2, st, next, Moved)

\* TicTacToeGame.makeMove
MakeMove(g, n, st, idx, row, col) ==
    LET symbol == players[idx + 1]
        g2 == placeGameSymbol(g, n, row, col, symbol)
    IN IF st # IN_PROGRESS THEN Outcome(g, st, idx, GameEnded)
       ELSE IF ~isValidMove(g, n, row, col)
            THEN Outcome(g, st, idx, InvalidMove)
       ELSE IF checkWinner(g2, symbol) THEN Outcome(g2, WON, idx, Moved)
       ELSE IF isFull(g2) THEN Outcome(g2, DRAW, idx, Moved)
       ELSE Outcome(g2, st, (idx + 1) % Len(players), Moved)

NoMove == [row |-> -1, col |-> -1, symbol |-> EMPTY, result |-> "none"]

InitGame ==
    /\ game = FALSE
    /\ size = 0
    /\ grid = NewGrid(0)
    /\ currentPlayerIndex = 0
    /\ status = IN_PROGRESS
    /\ move = NoMove
    /\ before = Outcome(NewGrid(0), IN_PROGRESS, 0, "none")
    /\ placed = <<>>

\* ---- SnakeGame --------------------------------------------------------
\* the size of the board of the model
BoardSize == 3

\* enum Direction
UP == "UP"
DOWN == "DOWN"
LEFT == "LEFT"
RIGHT == "RIGHT"
Directions == {UP, DOWN, LEFT, RIGHT}

\* enum GameStatus of the snake game
GAME_OVER == "GAME_OVER"

\* class Position
Position(row, col) == [row |-> row, col |-> col]

\* the positions on the board
Cells == {Position(r, c) : r \in 0..BoardSize - 1, c \in 0..BoardSize - 1}

\* Board.isOutside
isOutside(position) ==
    \/ position.row < 0
    \/ position.col < 0
    \/ position.row >= BoardSize
    \/ position.col >= BoardSize

\* Snake.getNextPosition
getNextPosition(head, dir) ==
    CASE dir = UP -> Position(head.row - 1, head.col)
      [] dir = DOWN -> Position(head.row + 1, head.col)
      [] dir = LEFT -> Position(head.row, head.col - 1)
      [] dir = RIGHT -> Position(head.row, head.col + 1)

\* SnakeGame.getNextHeadPosition: a copy of the head ("temp holder")
getNextHeadPosition(b) == Position(b[1].row, b[1].col)

\* Snake.move: unshift the new head, pop the tail unless growing
snakeMove(b, dir, grow) ==
    LET longer == <<getNextPosition(b[1], dir)>> \o b
    IN IF grow THEN longer ELSE SubSeq(longer, 1, Len(longer) - 1)

\* Snake.hasSelfCollision
hasSelfCollision(b) == \E i \in 2..Len(b) : b[i] = b[1]

\* the positions FoodGenerator.generate can return; with none left its loop
\* does not end and the call has no state after it
FoodChoices(b) == {p \in Cells : \A i \in 1..Len(b) : b[i] # p}

\* the Error message and the ways moveSnake returns
AlreadyOver == "Game is already over"
HitWall == "Snake hit the wall"
HitItself == "Snake collided with itself"
Stepped == "stepped"

NoStep == [direction |-> RIGHT, result |-> "none"]

InitSnake ==
    /\ snakeGame = FALSE
    /\ body = <<>>
    /\ direction = RIGHT
    /\ food = Position(0, 0)
    /\ snakeStatus = IN_PROGRESS
    /\ step = NoStep
    /\ bodyBefore = <<>>
    /\ foodBefore = Position(0, 0)

\* ---- ParkingLot -------------------------------------------------------
\* enum VehicleType and enum SpotType (BIKE is a member of both)
CAR == "CAR"
BIKE == "BIKE"
TRUCK == "TRUCK"
COMPACT == "COMPACT"
LARGE == "LARGE"

\* the vehicles of the driver: bike, car, truck
Vehicles ==
    { [vehicleNumber |-> "KA-01-BIKE-1234", type |-> BIKE],
      [vehicleNumber |-> "KA-01-CAR-5678", type |-> CAR],
      [vehicleNumber |-> "KA-01-TRUCK-9999", type |-> TRUCK] }

\* parkedVehicle = null
Null == [vehicleNumber |-> "null", type |-> "null"]

\* the floors of the driver, each the types of its spots in order:
\* F1-B1, F1-C1, F1-L1 and F2-C1, F2-L1
floors == << <<BIKE, COMPACT, LARGE>>, <<COMPACT, LARGE>> >>

\* a spot: the floor and the place on the floor
SpotIds ==
    {id \in (1..Len(floors)) \X (1..3) : id[2] <= Len(floors[id[1]])}

\* ParkingSpot.isFree
isFree(p, id) == p[id[1]][id[2]] = Null

\* canFitVehicle without the test of isFree
canFitVehicleWhenTaken(p, id, vehicle) ==
    LET type == floors[id[1]][id[2]]
    IN CASE vehicle.type = BIKE -> type = BIKE \/ type = COMPACT
         [] vehicle.type = CAR -> type = COMPACT \/ type = LARGE
         [] vehicle.type = TRUCK -> type = LARGE
         [] OTHER -> FALSE

\* ParkingSpot.canFitVehicle
canFitVehicle(p, id, vehicle) ==
    LET type == floors[id[1]][id[2]]
    IN IF ~isFree(p, id) THEN FALSE
       ELSE CASE vehicle.type = BIKE -> type = BIKE \/ type = COMPACT
              [] vehicle.type = CAR -> type = COMPACT \/ type = LARGE
              [] vehicle.type = TRUCK -> type = LARGE
              [] OTHER -> FALSE

\* the Error message of ParkingSpot.parkVehicle
CannotFit == "Vehicle cannot fit in the parking spot"

\* what ParkingSpot.parkVehicle leaves behind and how it ends
SpotOutcome(p, res) == [parked |-> p, result |-> res]

\* ParkingSpot.parkVehicle without the check of canFitVehicle
ParkInSpotNoCheck(p, id, vehicle) ==
    SpotOutcome([p EXCEPT ![id[1]][id[2]] = vehicle], "parked")

\* ParkingSpot.parkVehicle on the spot id
ParkInSpot(p, id, vehicle) ==
    IF ~canFitVehicle(p, id, vehicle) THEN SpotOutcome(p, CannotFit)
    ELSE SpotOutcome([p EXCEPT ![id[1]][id[2]] = vehicle], "parked")

\* ParkingSpot.removeVehicle on the spot id
RemoveFromSpot(p, id) == [p EXCEPT ![id[1]][id[2]] = Null]

\* ParkingFloor.findAvailableSpot: the place of the first spot of floor f
\* that fits, 0 for null
findAvailableSpot(p, f, vehicle) ==
    LET fits == {i \in 1..Len(floors[f]) : canFitVehicle(p, <<f, i>>, vehicle)}
    IN IF fits = {} THEN 0
       ELSE CHOOSE i \in fits : \A j \in fits : i <= j

\* the loop of ParkingLot.parkVehicle: the spot of the first floor that has
\* one, <<0, 0>> when the loop ends without a spot
FirstSpot(p, vehicle) ==
    LET has == {f \in 1..Len(floors) : findAvailableSpot(p, f, vehicle) # 0}
    IN IF has = {} THEN <<0, 0>>
       ELSE LET f == CHOOSE f \in has : \A g \in has : f <= g
            IN <<f, findAvailableSpot(p, f, vehicle)>>

\* the Error message of ParkingLot.parkVehicle
NoSpot == "No available parking spot for this vehicle type"

NoLotCall == [op |-> "none", vehicle |-> Null, spot |-> <<0, 0>>,
              result |-> "none"]

InitLot ==
    /\ parked = [f \in 1..Len(floors) |-> [i \in 1..Len(floors[f]) |-> Null]]
    /\ tickets = {}
    /\ lotCall = NoLotCall
    /\ parkedBefore = parked

\* ---- Index + Recency Ledger (spec.md 3, 4.1 - 4.3) ---------------------
NoHandle == 0
Handles == 1..MaxKey
\* the miss of the design's get: no value
Miss == NoVal
NoEntry == [key |-> Undefined, value |-> NoVal]

EmptyLedger ==
    [head |-> NoHandle, tail |-> NoHandle,
     next |-> [h \in Handles |-> NoHandle],
     prev |-> [h \in Handles |-> NoHandle],
     entry |-> [h \in Handles |-> NoEntry]]

\* the handles in use
Used(L) == {h \in Handles : L.entry[h] # NoEntry}

\* Recency Ledger size()
LedgerSize(L) == Cardinality(Used(L))

\* take handle h out of the links; its neighbours are joined
Unlink(L, h) ==
    LET p == L.prev[h]
        n == L.next[h]
    IN [L EXCEPT
           !.head = IF L.head = h THEN n ELSE L.head,
           !.tail = IF L.tail = h THEN p ELSE L.tail,
           !.next = [x \in Handles |->
                        IF x = h THEN NoHandle
                        ELSE IF x = p THEN n ELSE L.next[x]],
           !.prev = [x \in Handles |->
                        IF x = h THEN NoHandle
                        ELSE IF x = n THEN p ELSE L.prev[x]]]

\* link handle h in as the head
LinkFront(L, h) ==
    [L EXCEPT
        !.head = h,
        !.tail = IF L.tail = NoHandle THEN h ELSE L.tail,
        !.next = [L.next EXCEPT ![h] = L.head],
        !.prev = [x \in Handles |->
                     IF x = h THEN NoHandle
                     ELSE IF x = L.head THEN h ELSE L.prev[x]]]

\* the handle pushFront gives out: the lowest one not in use
FreshHandle(L) ==
    CHOOSE h \in Handles \ Used(L) : \A g \in Handles \ Used(L) : h <= g

\* Recency Ledger pushFront(entry)
pushFront(L, e) ==
    LET h == FreshHandle(L)
    IN LinkFront([L EXCEPT !.entry[h] = e], h)

\* Recency Ledger moveToFront(handle)
moveToFront(L, h) == LinkFront(Unlink(L, h), h)

\* Recency Ledger peekBack()
peekBack(L) == L.tail

\* Recency Ledger removeBack(): the ledger after it
removeBack(L) ==
    LET h == L.tail
    IN [Unlink(L, h) EXCEPT !.entry[h] = NoEntry]

\* facade get(key): index, ledger and result after the call
RefGet(ix, L, key) ==
    IF ix[key] = NoHandle
    THEN [index |-> ix, ledger |-> L, ret |-> Miss]
    ELSE [index |-> ix, ledger |-> moveToFront(L, ix[key]),
          ret |-> L.entry[ix[key]].value]

\* facade put(key, value): index and ledger after the call
RefPut(ix, L, cap, key, value) ==
    IF ix[key] # NoHandle
    THEN [index |-> ix,
          ledger |-> moveToFront([L EXCEPT !.entry[ix[key]].value = value],
                                 ix[key])]
    ELSE LET full == LedgerSize(L) = cap
             back == peekBack(L)
             L1 == IF full THEN removeBack(L) ELSE L
             ix1 == IF full THEN [ix EXCEPT ![L.entry[back].key] = NoHandle]
                    ELSE ix
             h == FreshHandle(L1)
         IN [index |-> [ix1 EXCEPT ![key] = h],
             ledger |-> pushFront(L1, [key |-> key, value |-> value])]

\* the entries of the ledger from the head to the tail
RECURSIVE WalkFrom(_, _, _)
WalkFrom(L, h, fuel) ==
    IF h = NoHandle \/ fuel = 0 THEN <<>>
    ELSE <<L.entry[h]>> \o WalkFrom(L, L.next[h], fuel - 1)

HeadToTail(L) == WalkFrom(L, L.head, MaxKey + 1)

InitRef ==
    /\ index = [k \in Keys |-> NoHandle]
    /\ ledger = EmptyLedger
    /\ refRet = NoVal

Init ==
    /\ InitCache
    /\ InitGame
    /\ InitSnake
    /\ InitLot
    /\ InitRef

\* ---- the cache with the history of its calls ----------------------------
New(cap) ==
    /\ constructor(cap)
    /\ last' = [op |-> "new", key |-> Undefined, value |-> NoVal, ret |-> NoVal]
    /\ UNCHANGED <<prev, lastPut, touch, watched, pend>>
    /\ UNCHANGED exceptCache

Get(key) ==
    /\ get(key)
    /\ last' = [op |-> "get", key |-> key, value |-> NoVal,
                ret |-> GetResult(cache, key)]
    /\ prev' = cache
    /\ touch' = IF Has(cache, key) THEN TouchAfter(key) ELSE touch
    /\ UNCHANGED <<lastPut, watched, pend>>
    /\ UNCHANGED exceptCache

Put(key, value) ==
    /\ put(key, value)
    /\ last' = [op |-> "put", key |-> key, value |-> value, ret |-> NoVal]
    /\ prev' = cache
    /\ lastPut' = [lastPut EXCEPT ![key] = value]
    /\ touch' = TouchAfter(key)
    /\ UNCHANGED <<watched, pend>>
    /\ UNCHANGED exceptCache

Next ==
    \/ \E cap \in Caps : New(cap)
    \/ \E key \in Keys : Get(key)
    \/ \E key \in Keys, value \in Vals : Put(key, value)

Spec == Init /\ [][Next]_vars

\* ---- the cache with the keys read and what was live at the read ---------
NewWatched(cap) ==
    /\ constructor(cap)
    /\ UNCHANGED <<last, prev, lastPut, touch, watched, pend>>
    /\ UNCHANGED exceptCache

GetWatched(key) ==
    /\ get(key)
    /\ watched' = IF Has(cache, key) THEN watched \cup {key} ELSE watched
    /\ pend' = IF Has(cache, key)
               THEN PendAfter(cache, cache', key, TRUE)
               ELSE pend
    /\ UNCHANGED <<last, prev, lastPut, touch>>
    /\ UNCHANGED exceptCache

PutWatched(key, value) ==
    /\ put(key, value)
    /\ watched' = (watched \ {key}) \cap KeysOf(cache')
    /\ pend' = PendAfter(cache, cache', key, FALSE)
    /\ UNCHANGED <<last, prev, lastPut, touch>>
    /\ UNCHANGED exceptCache

NextWatched ==
    \/ \E cap \in Caps : NewWatched(cap)
    \/ \E key \in Keys : GetWatched(key)
    \/ \E key \in Keys, value \in Vals : PutWatched(key, value)

SpecWatched == Init /\ [][NextWatched]_vars

\* ---- the game of tic tac toe --------------------------------------------
\* new Board(n); new TicTacToeGame([player1, player2], board, strategy)
NewGame(n) ==
    /\ ~game
    /\ game' = TRUE
    /\ size' = n
    /\ grid' = NewGrid(n)
    /\ currentPlayerIndex' = 0
    /\ status' = IN_PROGRESS
    /\ before' = Outcome(NewGrid(n), IN_PROGRESS, 0, "none")
    /\ UNCHANGED <<move, placed>>
    /\ UNCHANGED exceptGame

\* game.makeMove(row, col)
makeMove(row, col) ==
    LET out == MakeMove(grid, size, status, currentPlayerIndex, row, col)
        symbol == players[currentPlayerIndex + 1]
    IN /\ game
       /\ grid' = out.grid
       /\ status' = out.status
       /\ currentPlayerIndex' = out.index
       /\ move' = [row |-> row, col |-> col, symbol |-> symbol,
                   result |-> out.result]
       /\ before' = Outcome(grid, status, currentPlayerIndex, "none")
       /\ placed' = IF out.result = Moved THEN Append(placed, symbol)
                    ELSE placed
       /\ UNCHANGED <<game, size>>
       /\ UNCHANGED exceptGame

NextGame ==
    \/ \E n \in Sizes : NewGame(n)
    \/ \E row \in Coords, col \in Coords : makeMove(row, col)

SpecGame == Init /\ [][NextGame]_vars

\* ---- the snake game ------------------------------------------------------
\* new Snake(start); new SnakeGame(board, snake): the first food is generated
NewSnakeGame(start) ==
    /\ ~snakeGame
    /\ snakeGame' = TRUE
    /\ body' = <<start>>
    /\ direction' = RIGHT
    /\ food' \in FoodChoices(<<start>>)
    /\ snakeStatus' = IN_PROGRESS
    /\ bodyBefore' = <<start>>
    /\ foodBefore' = food'
    /\ UNCHANGED step
    /\ UNCHANGED exceptSnake

\* moveSnake on a game that is over: throws
MoveSnakeOver(dir) ==
    /\ snakeGame
    /\ snakeStatus = GAME_OVER
    /\ step' = [direction |-> dir, result |-> AlreadyOver]
    /\ bodyBefore' = body
    /\ foodBefore' = food
    /\ UNCHANGED <<snakeGame, body, direction, food, snakeStatus>>
    /\ UNCHANGED exceptSnake

\* moveSnake on a game in progress
MoveSnakeOn(dir) ==
    LET nextHead == getNextHeadPosition(body)
        eatsFood == nextHead = food
        moved == snakeMove(body, dir, eatsFood)
    IN /\ snakeGame
       /\ snakeStatus # GAME_OVER
       /\ direction' = dir
       /\ bodyBefore' = body
       /\ foodBefore' = food
       /\ IF isOutside(nextHead)
          THEN /\ snakeStatus' = GAME_OVER
               /\ step' = [direction |-> dir, result |-> HitWall]
               /\ UNCHANGED <<body, food>>
          ELSE /\ body' = moved
               /\ IF hasSelfCollision(moved)
                  THEN /\ snakeStatus' = GAME_OVER
                       /\ step' = [direction |-> dir, result |-> HitItself]
                       /\ UNCHANGED food
                  ELSE /\ step' = [direction |-> dir, result |-> Stepped]
                       /\ UNCHANGED snakeStatus
                       /\ IF eatsFood
                          THEN food' \in FoodChoices(moved)
                          ELSE UNCHANGED food
       /\ UNCHANGED snakeGame
       /\ UNCHANGED exceptSnake

\* game.moveSnake(direction)
moveSnake(dir) == MoveSnakeOver(dir) \/ MoveSnakeOn(dir)

NextSnake ==
    \/ \E start \in Cells : NewSnakeGame(start)
    \/ \E dir \in Directions : moveSnake(dir)

SpecSnake == Init /\ [][NextSnake]_vars

\* ---- the parking lot -----------------------------------------------------
\* parkingLot.parkVehicle(vehicle)
parkVehicle(vehicle) ==
    LET spot == FirstSpot(parked, vehicle)
    IN /\ parkedBefore' = parked
       /\ IF spot = <<0, 0>>
          THEN /\ lotCall' = [op |-> "park", vehicle |-> vehicle,
                              spot |-> spot, result |-> NoSpot]
               /\ UNCHANGED <<parked, tickets>>
          ELSE /\ parked' = ParkInSpot(parked, spot, vehicle).parked
               /\ tickets' = tickets \cup {[vehicle |-> vehicle, spot |-> spot]}
               /\ lotCall' = [op |-> "park", vehicle |-> vehicle,
                              spot |-> spot, result |-> "ticket"]
       /\ UNCHANGED exceptLot

\* parkingLot.unparkVehicle(ticket)
unparkVehicle(ticket) ==
    /\ ticket \in tickets
    /\ parkedBefore' = parked
    /\ parked' = RemoveFromSpot(parked, ticket.spot)
    /\ lotCall' = [op |-> "unpark", vehicle |-> ticket.vehicle,
                   spot |-> ticket.spot, result |-> "done"]
    /\ UNCHANGED tickets
    /\ UNCHANGED exceptLot

\* spot.parkVehicle(vehicle) on a spot of the driver's floor1Spots or
\* floor2Spots, or of the public ParkingFloor.spots
spotParkVehicle(id, vehicle) ==
    LET out == ParkInSpot(parked, id, vehicle)
    IN /\ parkedBefore' = parked
       /\ parked' = out.parked
       /\ lotCall' = [op |-> "spotPark", vehicle |-> vehicle, spot |-> id,
                       result |-> out.result]
       /\ UNCHANGED tickets
       /\ UNCHANGED exceptLot

\* spot.removeVehicle() on such a spot
removeVehicle(id) ==
    /\ parkedBefore' = parked
    /\ parked' = RemoveFromSpot(parked, id)
    /\ lotCall' = [op |-> "remove", vehicle |-> parked[id[1]][id[2]],
                    spot |-> id, result |-> "done"]
    /\ UNCHANGED tickets
    /\ UNCHANGED exceptLot

NextLot ==
    \/ \E vehicle \in Vehicles : parkVehicle(vehicle)
    \/ \E ticket \in tickets : unparkVehicle(ticket)

SpecLot == Init /\ [][NextLot]_vars

\* ---- the parking lot and its spots, each called directly ----------------
\* the Tickets a caller can hand to unparkVehicle: the constructor of Ticket
\* is public and takes any vehicle and any spot
AllTickets == [vehicle : Vehicles, spot : SpotIds]

\* parkingLot.parkVehicle(vehicle), the returned Ticket not kept
ParkAtLot(vehicle) ==
    LET spot == FirstSpot(parked, vehicle)
    IN /\ parkedBefore' = parked
       /\ parked' = IF spot = <<0, 0>> THEN parked
                     ELSE ParkInSpot(parked, spot, vehicle).parked
       /\ lotCall' = [op |-> "park", vehicle |-> vehicle, spot |-> spot,
                       result |-> IF spot = <<0, 0>> THEN NoSpot
                                  ELSE "ticket"]
       /\ UNCHANGED tickets
       /\ UNCHANGED exceptLot

\* parkingLot.unparkVehicle(new Ticket(vehicle, spot, ticketId))
UnparkAtLot(ticket) ==
    /\ parkedBefore' = parked
    /\ parked' = RemoveFromSpot(parked, ticket.spot)
    /\ lotCall' = [op |-> "unpark", vehicle |-> ticket.vehicle,
                    spot |-> ticket.spot, result |-> "done"]
    /\ UNCHANGED tickets
    /\ UNCHANGED exceptLot

NextSpot ==
    \/ \E vehicle \in Vehicles : ParkAtLot(vehicle)
    \/ \E ticket \in AllTickets : UnparkAtLot(ticket)
    \/ \E id \in SpotIds, vehicle \in Vehicles : spotParkVehicle(id, vehicle)
    \/ \E id \in SpotIds : removeVehicle(id)

SpecSpot == Init /\ [][NextSpot]_vars

\* ---- the Map and the Index + Recency Ledger side by side ----------------
\* both are constructed with the same capacity; the design rejects a
\* capacity that is not positive, so the pair exists for capacity > 0 only
NewBoth(cap) ==
    /\ cap > 0
    /\ constructor(cap)
    /\ index' = [k \in Keys |-> NoHandle]
    /\ ledger' = EmptyLedger
    /\ UNCHANGED <<last, prev, lastPut, touch, watched, pend, refRet>>
    /\ UNCHANGED exceptCacheAndRef

GetBoth(key) ==
    LET ref == RefGet(index, ledger, key)
    IN /\ get(key)
       /\ last' = [op |-> "get", key |-> key, value |-> NoVal,
                   ret |-> GetResult(cache, key)]
       /\ index' = ref.index
       /\ ledger' = ref.ledger
       /\ refRet' = ref.ret
       /\ prev' = cache
       /\ UNCHANGED <<lastPut, touch, watched, pend>>
       /\ UNCHANGED exceptCacheAndRef

PutBoth(key, value) ==
    LET ref == RefPut(index, ledger, capacity, key, value)
    IN /\ put(key, value)
       /\ last' = [op |-> "put", key |-> key, value |-> value, ret |-> NoVal]
       /\ index' = ref.index
       /\ ledger' = ref.ledger
       /\ refRet' = NoVal
       /\ prev' = cache
       /\ UNCHANGED <<lastPut, touch, watched, pend>>
       /\ UNCHANGED exceptCacheAndRef

NextBoth ==
    \/ \E cap \in Caps : NewBoth(cap)
    \/ \E key \in Keys : GetBoth(key)
    \/ \E key \in Keys, value \in Vals : PutBoth(key, value)

SpecBoth == Init /\ [][NextBoth]_vars

\* ---- shape of the state -------------------------------------------------
TypeOK ==
    /\ instance \in BOOLEAN
    /\ capacity \in Caps \cup {0}
    /\ \A i \in 1..Len(cache) : cache[i].key \in Keys /\ cache[i].value \in Vals
    /\ last.op \in {"none", "new", "get", "put"}
    /\ watched \subseteq Keys

\* ---- vocabulary of the properties ---------------------------------------
PosIn(s, k) == CHOOSE i \in 1..Len(s) : s[i] = k

\* the key of S whose most recent successful get or put is the oldest
LeastRecent(S) ==
    CHOOSE k \in S : \A j \in S : PosIn(touch, k) <= PosIn(touch, j)

\* the last call was put(k, v) with k absent and size = capacity
OverflowPut ==
    /\ last.op = "put"
    /\ ~Has(prev, last.key)
    /\ Len(prev) = capacity

\* the last call was put(k, v) with k live
UpdatePut == last.op = "put" /\ Has(prev, last.key)

GetHit == last.op = "get" /\ Has(prev, last.key)
GetMiss == last.op = "get" /\ ~Has(prev, last.key)

\* what an overflowing put is to do: evict the least recent key, keep the
\* others with their values, insert the new key
EvictsExactlyLRU ==
    /\ Cardinality(Evicted) = 1
    /\ Evicted = {LeastRecent(KeysOf(prev))}
    /\ \A k \in KeysOf(prev) \ Evicted :
           Has(cache, k) /\ MapGet(cache, k) = MapGet(prev, k)
    /\ Has(cache, last.key)
    /\ MapGet(cache, last.key) = last.value

\* ---- C1 -----------------------------------------------------------------
\* C1: on a cache built with capacity > 0 the number of live entries stays
\* between 0 and capacity after every call.
C1_SizeWithinCapacity ==
    (instance /\ capacity > 0) => (0 <= Len(cache) /\ Len(cache) <= capacity)

\* a put of an absent key into a full cache of positive capacity has run
C1_Witness ==
    /\ capacity > 0
    /\ OverflowPut
    /\ Len(cache) = capacity

\* ---- C2 -----------------------------------------------------------------
\* C2: a put of an absent key at size = capacity evicts exactly one entry,
\* the live key touched least recently; every other live key stays with its
\* value, and the new key is inserted.
C2_OverflowEvictsLRU == OverflowPut => EvictsExactlyLRU

\* the same on the caches the constructor is meant to produce
C2_OverflowEvictsLRU_PositiveCapacity ==
    (OverflowPut /\ capacity > 0) => EvictsExactlyLRU

\* ---- C3 -----------------------------------------------------------------
\* C3: after a get hit on k, as long as k is not touched again, k is not
\* evicted before every other key that was live at the get has been accessed
\* or evicted.
C3_GetProtectsKey ==
    [][\A k \in watched :
          (Has(cache, k) /\ ~Has(cache', k)) => pend[k] = {}]_vars

\* k was read in a cache that held other keys; since then all of them were
\* accessed or evicted, k was not touched and is the next key to go
C3_Witness ==
    /\ capacity > 1
    /\ Len(cache) = capacity
    /\ \E k \in watched : FirstKey(cache) = k /\ pend[k] = {}

\* ---- C4 -----------------------------------------------------------------
\* C4: a put of a live key leaves the set of live keys and their number as
\* they were and evicts nothing, at every occupancy.
C4_UpdateKeepsKeys ==
    UpdatePut =>
        /\ KeysOf(cache) = KeysOf(prev)
        /\ Len(cache) = Len(prev)
        /\ Evicted = {}

\* the only entry of a full cache of capacity 1 was put again
C4_Witness ==
    /\ UpdatePut
    /\ capacity = 1
    /\ Len(prev) = capacity

\* ---- C5 -----------------------------------------------------------------
\* C5: no cache instance exists with a capacity that is not positive, so no
\* get or put runs on one.
C5_NoInstanceWithoutPositiveCapacity == instance => capacity > 0

\* ---- C6 -----------------------------------------------------------------
\* C6: a get of a key that is not live returns the miss result and leaves
\* the keys, their values and their order as they were.
C6_MissMutatesNothing == GetMiss => (last.ret = MISS /\ cache = prev)

\* a miss on a cache that holds other keys
C6_Witness == GetMiss /\ capacity > 0 /\ Len(prev) > 0

\* ---- C7 -----------------------------------------------------------------
\* C7: a get of a live key returns the value of the most recent put of that
\* key.
C7_GetReturnsLastPut == GetHit => last.ret = lastPut[last.key]

\* a hit on a key that is not the one put last, on a cache of two entries
C7_Witness ==
    /\ GetHit
    /\ capacity > 0
    /\ Len(prev) >= 2
    /\ prev[Len(prev)].key # last.key
    /\ last.ret = lastPut[last.key]

\* ---- C8 -----------------------------------------------------------------
\* C8: whenever get returns the miss result the key has no live entry (stated
\* on the caches of positive capacity, where no other defect takes part).
C8_MissMeansAbsent ==
    (capacity > 0 /\ last.op = "get" /\ last.ret = MISS) =>
        ~Has(prev, last.key)

\* ---- C9 -----------------------------------------------------------------
\* C9: after any put(k, v), insert or update, k is the last key in eviction
\* order among the live keys.
C9_PutMakesMostRecent ==
    last.op = "put" =>
        /\ Len(cache) > 0
        /\ cache[Len(cache)].key = last.key

\* an update of a key that was first in eviction order among several
C9_Witness ==
    /\ UpdatePut
    /\ capacity > 0
    /\ Len(prev) >= 2
    /\ FirstKey(prev) = last.key

\* ---- C10 ----------------------------------------------------------------
DistinctPut == {k \in Keys : lastPut[k] # NoVal}

\* C10: a key stops being live only by a put of another, absent key at
\* size = capacity; and while the number of distinct keys put does not
\* exceed capacity every key put is live.
C10_OnlyOverflowEvicts ==
    /\ \A k \in Evicted : OverflowPut /\ last.key # k
    /\ (instance /\ Cardinality(DistinctPut) <= capacity) =>
           DistinctPut = KeysOf(cache)

\* capacity many distinct keys were put and read, all are live
C10_Witness ==
    /\ capacity = MaxCap
    /\ Cardinality(DistinctPut) = capacity
    /\ last.op = "get"
    /\ DistinctPut = KeysOf(cache)

\* ---- C11 ----------------------------------------------------------------
\* C11: on a constructed cache every get and every put can run whatever the
\* state and the arguments (no call throws), and get returns a value or the
\* miss result.
C11_GetPutTotal ==
    /\ instance =>
           /\ \A k \in Keys : ENABLED Get(k)
           /\ \A k \in Keys, v \in Vals : ENABLED Put(k, v)
    /\ last.op = "get" => last.ret \in Vals \cup {MISS}

\* a get on an empty cache of positive capacity returned the miss result
C11_Witness ==
    /\ capacity > 0
    /\ GetMiss
    /\ Len(cache) = 0
    /\ last.ret = MISS

\* ---- C18 ----------------------------------------------------------------
\* C18: the order of the cache holds every live key once, and the keys stand
\* in the order of their most recent successful get or put, oldest first.
C18_OrderIsTouchOrder ==
    /\ Cardinality(KeysOf(cache)) = Len(cache)
    /\ \A i \in 1..Len(cache) : \E p \in 1..Len(touch) : touch[p] = cache[i].key
    /\ \A i, j \in 1..Len(cache) :
           i < j => PosIn(touch, cache[i].key) < PosIn(touch, cache[j].key)

\* a hit on the oldest key of a full cache after an eviction
C18_Witness ==
    /\ GetHit
    /\ capacity > 1
    /\ Len(prev) = capacity
    /\ FirstKey(prev) = last.key
    /\ Len(touch) > Len(cache)

\* ---- C19 ----------------------------------------------------------------
Without(m, key) == SelectSeq(m, LAMBDA e : e.key # key)

\* C19: a get hit on k keeps the set of live keys, every value (k's too) and
\* the order of the keys other than k.
C19_HitOnlyMovesKey ==
    GetHit =>
        /\ KeysOf(cache) = KeysOf(prev)
        /\ \A k \in KeysOf(prev) : MapGet(cache, k) = MapGet(prev, k)
        /\ Without(cache, last.key) = Without(prev, last.key)

\* a hit that moved the key past another key
C19_Witness ==
    /\ GetHit
    /\ capacity > 1
    /\ Len(prev) >= 2
    /\ cache # prev

\* ---- C13 ----------------------------------------------------------------
\* C13: once the status is WON or DRAW it stays as it is, and every later
\* makeMove throws 'Game has already ended' and changes neither the board
\* nor the status nor the current player.
C13_EndedGameIsFrozen ==
    (game /\ before.status # IN_PROGRESS) =>
        /\ move.result = GameEnded
        /\ status = before.status
        /\ grid = before.grid
        /\ currentPlayerIndex = before.index

\* a move to a free cell of the board was refused after a win
C13_Witness ==
    /\ before.status = WON
    /\ isValidMove(grid, size, move.row, move.col)
    /\ move.result = GameEnded

\* ---- C14 ----------------------------------------------------------------
\* C14: the successful moves of a game are made with the symbols of
\* players[0], players[1], players[0], ... in turn; while the game is in
\* progress a makeMove off the board or on an occupied cell throws 'Invalid
\* move' and leaves the board, the status and the current player alone.
C14_PlayersTakeTurns ==
    /\ \A i \in 1..Len(placed) : placed[i] = players[((i - 1) % 2) + 1]
    /\ ( /\ move.result # "none"
         /\ before.status = IN_PROGRESS
         /\ ~isValidMove(before.grid, size, move.row, move.col) ) =>
           /\ move.result = InvalidMove
           /\ grid = before.grid
           /\ status = before.status
           /\ currentPlayerIndex = before.index

\* the second player tried an occupied cell after three successful moves
C14_Witness ==
    /\ Len(placed) = 3
    /\ move.result = InvalidMove
    /\ move.symbol = O
    /\ move.row \in 0..size - 1
    /\ move.col \in 0..size - 1
    /\ status = IN_PROGRESS

\* ---- C15 ----------------------------------------------------------------
\* C15: the call of moveSnake whose step takes the head off the board ends
\* the game, so no segment of the snake ever lies outside the board.
C15_SnakeStaysOnBoard ==
    snakeGame => \A i \in 1..Len(body) : ~isOutside(body[i])

\* ---- C16 ----------------------------------------------------------------
\* C16: on the move that brings the head onto the food the body grows by
\* exactly one and the new food lies off the snake; on every other move
\* that does not end the game the length stays.
C16_GrowsWhenEating ==
    (snakeGame /\ step.result = Stepped) =>
        IF body[1] = foodBefore
        THEN /\ Len(body) = Len(bodyBefore) + 1
             /\ \A i \in 1..Len(body) : body[i] # food
        ELSE Len(body) = Len(bodyBefore)

\* ---- C17 ----------------------------------------------------------------
\* a vehicle type goes with a spot type
Compatible(vehicleType, spotType) ==
    \/ vehicleType = BIKE /\ spotType \in {BIKE, COMPACT}
    \/ vehicleType = CAR /\ spotType \in {COMPACT, LARGE}
    \/ vehicleType = TRUCK /\ spotType = LARGE

\* the free spots of p that go with the vehicle
FreeCompatible(p, vehicle) ==
    {id \in SpotIds :
        /\ p[id[1]][id[2]] = Null
        /\ Compatible(vehicle.type, floors[id[1]][id[2]])}

\* floors in order, spots in order within a floor
SpotBefore(a, b) == a[1] < b[1] \/ (a[1] = b[1] /\ a[2] <= b[2])

\* C17: parkVehicle puts the vehicle in the first free compatible spot,
\* floors in order and spots in order, and changes no other spot; it throws
\* the no-spot error exactly when no free compatible spot exists, and then
\* no spot changes.
C17_ParksInFirstFreeSpot ==
    lotCall.op = "park" =>
        LET S == FreeCompatible(parkedBefore, lotCall.vehicle)
        IN IF S = {}
           THEN /\ lotCall.result = NoSpot
                /\ parked = parkedBefore
           ELSE /\ lotCall.result = "ticket"
                /\ lotCall.spot \in S
                /\ \A id \in S : SpotBefore(lotCall.spot, id)
                /\ parked = [parkedBefore EXCEPT
                                ![lotCall.spot[1]][lotCall.spot[2]] =
                                    lotCall.vehicle]

\* a vehicle went to the second floor, past a taken spot of the first floor
\* that goes with it
C17_Witness ==
    /\ lotCall.op = "park"
    /\ lotCall.result = "ticket"
    /\ lotCall.spot[1] = 2
    /\ \E i \in 1..Len(floors[1]) :
           /\ parkedBefore[1][i] # Null
           /\ Compatible(lotCall.vehicle.type, floors[1][i])

\* ---- C20 ----------------------------------------------------------------
Reverse(q) == [i \in 1..Len(q) |-> q[Len(q) + 1 - i]]

\* C20: run call by call with the same capacity > 0, the Map and the Index +
\* Recency Ledger give the same results (the Map's -1 where the design
\* misses), hold the same keys in the Map, the Index and the Ledger, and the
\* Map's order is the Ledger's head-to-tail order reversed.
C20_MapEqualsLedger ==
    instance =>
        /\ last.op = "get" =>
               last.ret = (IF refRet = Miss THEN MISS ELSE refRet)
        /\ KeysOf(cache) = {k \in Keys : index[k] # NoHandle}
        /\ KeysOf(cache) = KeysOf(HeadToTail(ledger))
        /\ cache = Reverse(HeadToTail(ledger))
        /\ \A k \in KeysOf(cache) : ledger.entry[index[k]].key = k

\* a put of an absent key into a full cache of several keys evicted on both
\* sides, and the new key took over the handle that came free
C20_Witness ==
    /\ capacity > 1
    /\ OverflowPut
    /\ LedgerSize(ledger) = capacity
    /\ ledger.head = index[last.key]
    /\ ledger.entry[ledger.tail].key = FirstKey(cache)

\* ---- C21 ----------------------------------------------------------------
\* C21: no call of get or put runs the eviction step, the delete of
\* keys().next().value in the else-if branch of put, on a cache that holds
\* no entry.
C21_NoEvictionOnEmpty == OverflowPut => Len(prev) > 0

\* the same on the caches the constructor is meant to produce
C21_NoEvictionOnEmpty_PositiveCapacity ==
    (OverflowPut /\ capacity > 0) => Len(prev) > 0

\* ---- C22 ----------------------------------------------------------------
\* the rows, the columns and the two diagonals of an n x n board, as sets of
\* cells
Rows(n) == {{<<r, c>> : c \in 0..n - 1} : r \in 0..n - 1}
Columns(n) == {{<<r, c>> : r \in 0..n - 1} : c \in 0..n - 1}
MainDiagonal(n) == {<<i, i>> : i \in 0..n - 1}
AntiDiagonal(n) == {<<i, n - 1 - i>> : i \in 0..n - 1}
Lines(n) == Rows(n) \cup Columns(n) \cup {MainDiagonal(n), AntiDiagonal(n)}

\* the symbol fills the line L of the grid
Fills(g, L, symbol) == \A cell \in L : g[cell[1]][cell[2]] = symbol

\* no cell of the n x n grid is EMPTY
BoardFull(g, n) == \A r \in 0..n - 1, c \in 0..n - 1 : g[r][c] # EMPTY

\* C22: after a successful makeMove on an N x N board the status is WON
\* exactly when the mover's symbol fills a row, a column, the main diagonal
\* or the anti-diagonal, DRAW exactly when no such line exists and the
\* board is full, and IN_PROGRESS otherwise.
C22_StatusFollowsBoard ==
    (game /\ move.result = Moved) =>
        LET line == \E L \in Lines(size) : Fills(grid, L, move.symbol)
            full == BoardFull(grid, size)
        IN /\ status = WON <=> line
           /\ status = DRAW <=> (~line /\ full)
           /\ status = IN_PROGRESS <=> (~line /\ ~full)

\* a move on the 3 x 3 board completed the anti-diagonal and no other line
C22_Witness ==
    /\ size = 3
    /\ move.result = Moved
    /\ status = WON
    /\ Fills(grid, AntiDiagonal(size), move.symbol)
    /\ \A L \in Lines(size) \ {AntiDiagonal(size)} :
           ~Fills(grid, L, move.symbol)

\* a move filled the last cell of the 3 x 3 board without completing a line
C22_DrawReached ==
    /\ size = 3
    /\ move.result = Moved
    /\ status = DRAW
    /\ BoardFull(grid, size)

\* ---- C23 ----------------------------------------------------------------
\* the vehicle parked in the spot id of p
VehicleIn(p, id) == p[id[1]][id[2]]

\* C23: every spot holds at most one vehicle, so no call puts a vehicle in
\* a spot that holds one; the type of a parked vehicle goes with the type
\* of its spot (BIKE in BIKE or COMPACT, CAR in COMPACT or LARGE, TRUCK in
\* LARGE); ParkingSpot.parkVehicle on a taken spot or on a spot of a type
\* that does not go with the vehicle throws and leaves the spot as it is.
C23_SpotHoldsOneCompatibleVehicle ==
    /\ \A id \in SpotIds :
           /\ VehicleIn(parked, id) \in Vehicles \cup {Null}
           /\ VehicleIn(parked, id) # Null =>
                  Compatible(VehicleIn(parked, id).type,
                             floors[id[1]][id[2]])
           /\ VehicleIn(parkedBefore, id) # Null =>
                  VehicleIn(parked, id) \in {VehicleIn(parkedBefore, id), Null}
    /\ lotCall.op = "spotPark" =>
           IF \/ VehicleIn(parkedBefore, lotCall.spot) # Null
              \/ ~Compatible(lotCall.vehicle.type,
                             floors[lotCall.spot[1]][lotCall.spot[2]])
           THEN /\ lotCall.result = CannotFit
                /\ parked = parkedBefore
           ELSE /\ lotCall.result = "parked"
                /\ parked = [parkedBefore EXCEPT
                                ![lotCall.spot[1]][lotCall.spot[2]] =
                                    lotCall.vehicle]

\* ParkingSpot.parkVehicle was called with a vehicle on a spot of a type
\* that goes with it and that held another vehicle, and threw
C23_Witness ==
    /\ lotCall.op = "spotPark"
    /\ lotCall.result = CannotFit
    /\ VehicleIn(parkedBefore, lotCall.spot) \in Vehicles \ {lotCall.vehicle}
    /\ Compatible(lotCall.vehicle.type,
                  floors[lotCall.spot[1]][lotCall.spot[2]])

\* ParkingSpot.parkVehicle was called on a free spot of a type that does
\* not go with the vehicle, and threw
C23_IncompatibleRefused ==
    /\ lotCall.op = "spotPark"
    /\ lotCall.result = CannotFit
    /\ VehicleIn(parkedBefore, lotCall.spot) = Null

====
